---- MODULE Spec2Model ----
(***************************************************************************)
(* A model of cli-rain (src/src/main.rs): the RainMap particle world, its  *)
(* operations new / hydrate / update / resize / render, the value types    *)
(* Pos, Velocity and RainEntity, and the program around them: main's loop  *)
(* and handle_exit, on the main thread and on the ctrl-c handler's.        *)
(*                                                                         *)
(* A particle is the pair (Pos, RainEntity) the source stores in           *)
(* RainMap::entities, written here as the record                           *)
(*     [p |-> [x, y, z], e |-> [c, velocity |-> [x, y, z]]].               *)
(* The Vec is a sequence: its order is kept, because render reads it in    *)
(* order.                                                                  *)
(***************************************************************************)
EXTENDS Integers, Sequences, FiniteSets

VARIABLES
    width,      \* RainMap::width
    height,     \* RainMap::height
    entities,   \* RainMap::entities
    call,       \* the RainMap operation that ran last (render: with its option)
    ret,        \* what that operation returned
    pc,         \* where the main thread is in main
    opts,       \* the parsed Opts
    window_size,\* main's window_size, from terminal::size()
    handler,    \* where the ctrl-c handler thread is
    buffer,     \* what the process-wide stdout holds unflushed
    terminal,   \* what has reached the terminal, in order
    status,     \* how the process ended, if it has
    widest      \* history: the largest width the world has had

world == <<width, height, entities, call, ret>>
process == <<pc, opts, window_size, handler, buffer, terminal, status, widest>>
vars == <<width, height, entities, call, ret,
          pc, opts, window_size, handler, buffer, terminal, status, widest>>

---------------------------------------------------------------------------
(* Bounds of the model.                                                    *)

\* Largest terminal width and height, at start-up and in resize events.
MaxWidth == 2
MaxHeight == 3
\* hydrate is not taken when it would leave more particles than this.
MaxEntities == 2

---------------------------------------------------------------------------
(* Program constants.                                                      *)

\* Pos::z and Velocity::z are i16.
I16Min == -32768
I16Max == 32767

AVAILABLE_CHARS == <<"\\", "/", "|", "~", "(", ")", "[", "]", "*", "#", "@">>

X_RANGE == -3 .. 3
Y_RANGE == -3 .. -1
Z_RANGE == -3 .. 3

\* Opts::spawn_rate is accepted in 1..=100.
SpawnRateRange == 1 .. 100

---------------------------------------------------------------------------
(* The values the random source is let to return in the model. One draw  *)
(* of RainEntity::new is <<i, dx, dy, dz>>: the index into AVAILABLE_CHARS *)
(* and the three numbers Velocity::new draws from X_RANGE, Y_RANGE and     *)
(* Z_RANGE. EntityDraws is a subset of the draws the code can make: a      *)
(* straight fall of one row per update with rising depth under two glyphs, *)
(* the same fall with falling depth, and a fall of two rows per update     *)
(* that drifts one column to the right.                                    *)

EntityDraws ==
    { d \in { <<0, 0, -1, -1>>, <<1, 0, -1, -1>>, <<0, 0, -1, 1>>,
              <<1, -1, -2, -1>> } :
        /\ d[1] \in 0 .. Len(AVAILABLE_CHARS) - 1
        /\ d[2] \in X_RANGE /\ d[3] \in Y_RANGE /\ d[4] \in Z_RANGE }

SpawnRates == SpawnRateRange \cap {1, 100}

---------------------------------------------------------------------------
(* Pos, Velocity, RainEntity.                                              *)

PosNew(x, y, z) == [x |-> x, y |-> y, z |-> z]

\* i16 addition that wraps around instead of saturating.
WrappingAdd(a, b) == ((a + b - I16Min) % (I16Max - I16Min + 1)) + I16Min

\* i16::saturating_add
SaturatingAdd(a, b) ==
    IF a + b > I16Max THEN I16Max
    ELSE IF a + b < I16Min THEN I16Min
    ELSE a + b

\* Pos::shift
Shift(p, vel) ==
    [x |-> p.x + vel.x, y |-> p.y + vel.y, z |-> SaturatingAdd(p.z, vel.z)]

\* Velocity::new with the vertical draw left as drawn.
VelocityNewYNotNegated(dx, dy, dz) == [x |-> 0 - dx, y |-> dy, z |-> 0 - dz]

\* Velocity::new, given the three numbers drawn: each is negated.
VelocityNew(dx, dy, dz) == [x |-> 0 - dx, y |-> 0 - dy, z |-> 0 - dz]

\* RainEntity::new, over the draws of the model.
RainEntityNew ==
    { [c |-> AVAILABLE_CHARS[d[1] + 1], velocity |-> VelocityNew(d[2], d[3], d[4])] :
        d \in EntityDraws }

\* Rng::random_bool(spawn_rate / 100): certain at 100, open below.
RandomBool(rate) == IF rate >= 100 THEN {TRUE} ELSE BOOLEAN

---------------------------------------------------------------------------
(* RainMap.                                                                *)

\* contains with both upper limits taken as inclusive.
ContainsUpperInclusive(w, h, pos) ==
    pos.x > 0 /\ pos.x <= w /\ pos.y > 0 /\ pos.y <= h

\* RainMap::contains, with the bounds it reads from self as parameters.
Contains(w, h, pos) == pos.x > 0 /\ pos.x < w /\ pos.y > 0 /\ pos.y < h

\* The record of a call: the operation and, for render, opts.no_color.
Called(op, no_color) == [op |-> op, no_color |-> no_color]

\* Return values: Ok(()) or (), Err(..), and the String render returns.
Unit == [ok |-> TRUE, frame |-> <<>>]
Err == [ok |-> FALSE, frame |-> <<>>]

\* RainMap::new failing only when both sides are zero.
RainMapNewNeedsBothZero(w, h) ==
    IF w = 0 /\ h = 0
    THEN [ok |-> FALSE, width |-> 0, height |-> 0, entities |-> <<>>]
    ELSE [ok |-> TRUE, width |-> w, height |-> h, entities |-> <<>>]

\* RainMap::new: an error leaves no world (written as a 0 x 0 one).
RainMapNew(w, h) ==
    IF w = 0 \/ h = 0
    THEN [ok |-> FALSE, width |-> 0, height |-> 0, entities |-> <<>>]
    ELSE [ok |-> TRUE, width |-> w, height |-> h, entities |-> <<>>]

\* The values Opts::parse leaves in opts.
OptsDraws ==
    { [spawn_rate |-> 1, no_color |-> FALSE],
      [spawn_rate |-> 100, no_color |-> TRUE] }

\* How the process stands: still running, ended by exit(0) in handle_exit,
\* ended by main returning Err, or ended by a panic of the main thread.
Running == "running"
ExitOk == "exit(0)"
MainErr == "main returned Err"
MainPanic == "main panicked"

\* A RainMap used through its methods alone, with no main around it.
NoMain ==
    /\ pc = "none"
    /\ opts = [spawn_rate |-> 1, no_color |-> FALSE]
    /\ window_size = <<0, 0>>
    /\ handler = "unset"
    /\ buffer = <<>>
    /\ terminal = <<>>
    /\ status = Running
    /\ widest = 0

Init ==
    /\ NoMain
    /\ \E w \in 0 .. MaxWidth, h \in 0 .. MaxHeight :
        LET made == RainMapNew(w, h) IN
        /\ call = Called("new", FALSE)
        /\ entities = made.entities
        /\ width = made.width
        /\ height = made.height
        /\ ret = IF made.ok THEN Unit ELSE Err

\* main returns when RainMap::new fails, so nothing is called on no world.
Created == width > 0 /\ height > 0

\* The hydrate loop stopping one column early.
RECURSIVE HydrateLoopStopsEarly(_, _, _)
HydrateLoopStopsEarly(x, ents, picks) ==
    IF x >= width - 1 THEN ents
    ELSE HydrateLoopStopsEarly(x + 1,
             IF picks[x] = <<>> THEN ents
             ELSE Append(ents, [p |-> [x |-> x, y |-> 0, z |-> 0], e |-> picks[x][1]]),
             picks)

\* The loop of RainMap::hydrate from column x on, given what the random
\* source returned: picks[c] is <<>> where should_add came out false and
\* <<entity>> where it came out true and RainEntity::new() gave entity.
RECURSIVE HydrateLoop(_, _, _)
HydrateLoop(x, ents, picks) ==
    IF x >= width THEN ents
    ELSE HydrateLoop(x + 1,
             IF picks[x] = <<>> THEN ents
             ELSE Append(ents, [p |-> PosNew(x, 0, 0), e |-> picks[x][1]]),
             picks)

\* The column sets should_add can come out true on.
SpawnColumns(rate) ==
    { cols \in SUBSET (0 .. width - 1) :
        \A x \in 0 .. width - 1 : (x \in cols) \in RandomBool(rate) }

\* RainMap::hydrate with RainEntity::new drawing from made, taken only
\* while the world holds no more than most particles afterwards.
HydrateFrom(rate, made, most) ==
    /\ Created
    /\ \E cols \in SpawnColumns(rate) :
        /\ Len(entities) + Cardinality(cols) <= most
        /\ \E news \in [cols -> made] :
            entities' = HydrateLoop(0, entities,
                            [x \in 0 .. width - 1 |->
                                IF x \in cols THEN <<news[x]>> ELSE <<>>])
    /\ call' = Called("hydrate", FALSE)
    /\ ret' = Unit
    /\ UNCHANGED <<width, height>>

Hydrate(rate) == HydrateFrom(rate, RainEntityNew, MaxEntities)

\* A filter closure that keeps every particle.
RetainKeepsAll(w, h, ents) == ents

\* The filter closure of RainMap::resize over a Vec, for bounds w x h.
Retain(w, h, ents) == SelectSeq(ents, LAMBDA t : Contains(w, h, t.p))

\* resize storing the new bounds before it checks them.
ResizeAssignsFirst(w, h) ==
    /\ width > 0 /\ height > 0
    /\ call' = Called("resize", FALSE)
    /\ width' = w
    /\ height' = h
    /\ IF w = 0 \/ h = 0
       THEN ret' = Err /\ entities' = entities
       ELSE ret' = Unit /\ entities' = Retain(w, h, entities)

Resize(w, h) ==
    /\ Created
    /\ call' = Called("resize", FALSE)
    /\ IF w = 0 \/ h = 0
       THEN /\ ret' = Err
            /\ UNCHANGED <<width, height, entities>>
       ELSE /\ width' = w
            /\ height' = h
            /\ entities' = Retain(w, h, entities)
            /\ ret' = Unit

\* The filter_map closure of RainMap::update applied along the Vec.
Moved(ents) ==
    [i \in 1 .. Len(ents) |->
        [p |-> Shift(ents[i].p, ents[i].e.velocity), e |-> ents[i].e]]

Update ==
    /\ Created
    /\ entities' = SelectSeq(Moved(entities), LAMBDA t : Contains(width, height, t.p))
    /\ call' = Called("update", FALSE)
    /\ ret' = Unit
    /\ UNCHANGED <<width, height>>

\* Option<(i16, char)>: None is <<>>, Some((z, c)) is <<z, c>>.
\* The grid render starts from: height rows of width empty cells.
EmptyData(w, h) == [y \in 0 .. h - 1 |-> [x \in 0 .. w - 1 |-> <<>>]]

\* The pass of render keeping the entry of lower depth.
PlaceKeepsLower(data, t) ==
    IF Len(data[t.p.y][t.p.x]) = 0
    THEN [data EXCEPT ![t.p.y][t.p.x] = <<t.p.z, t.e.c>>]
    ELSE IF data[t.p.y][t.p.x][1] < t.p.z THEN data
    ELSE [data EXCEPT ![t.p.y][t.p.x] = <<t.p.z, t.e.c>>]

\* The pass of render keeping the entry on equal depths too.
PlaceKeepsOnTie(data, t) ==
    IF Len(data[t.p.y][t.p.x]) = 0
    THEN [data EXCEPT ![t.p.y][t.p.x] = <<t.p.z, t.e.c>>]
    ELSE IF data[t.p.y][t.p.x][1] >= t.p.z THEN data
    ELSE [data EXCEPT ![t.p.y][t.p.x] = <<t.p.z, t.e.c>>]

\* One pass of the second loop of render: the particle t against data.
Place(data, t) ==
    LET data_entry == data[t.p.y][t.p.x]
        put == [data EXCEPT ![t.p.y][t.p.x] = <<t.p.z, t.e.c>>]
    IN  IF Len(data_entry) = 0 THEN put
        ELSE IF data_entry[1] > t.p.z THEN data
        ELSE put

\* The second loop of render over ents[i ..], in Vec order, skipping the
\* particles its filter drops.
RECURSIVE Rasterize(_, _, _, _, _)
Rasterize(w, h, data, ents, i) ==
    IF i > Len(ents) THEN data
    ELSE Rasterize(w, h,
             IF Contains(w, h, ents[i].p) THEN Place(data, ents[i]) ELSE data,
             ents, i + 1)

\* One piece pushed onto the output String: the text and the foreground
\* colour crossterm wraps it in ("None": pushed bare).
Segment(fg, text) == [fg |-> fg, text |-> text]

\* The colour match of render with its first and last arms exchanged.
CellTextShadesSwapped(col, no_color) ==
    IF Len(col) = 0 THEN Segment("None", " ")
    ELSE IF ~no_color
         THEN IF col[1] < 0 THEN Segment("Cyan", col[2])
              ELSE IF col[1] = 0 THEN Segment("Blue", col[2])
              ELSE Segment("DarkBlue", col[2])
         ELSE Segment("None", col[2])

\* The piece render pushes for one cell of the grid.
CellText(col, no_color) ==
    IF Len(col) = 0 THEN Segment("None", " ")
    ELSE IF ~no_color
         THEN IF col[1] < 0 THEN Segment("DarkBlue", col[2])
              ELSE IF col[1] = 0 THEN Segment("Blue", col[2])
              ELSE Segment("Cyan", col[2])
         ELSE Segment("None", col[2])

\* The third loop of render from row y on: the pieces of each row, then "\n".
RECURSIVE Output(_, _, _, _, _)
Output(w, h, data, no_color, y) ==
    IF y >= h THEN <<>>
    ELSE [i \in 1 .. w |-> CellText(data[y][i - 1], no_color)]
         \o <<Segment("None", "\n")>>
         \o Output(w, h, data, no_color, y + 1)

\* RainMap::render as a function of the world and the colour option.
RenderFrame(w, h, ents, no_color) ==
    Output(w, h, Rasterize(w, h, EmptyData(w, h), ents, 1), no_color, 0)

\* RainMap::render taking &mut self and leaving the Vec back to front.
RenderReversesEntities(no_color) ==
    /\ Created
    /\ call' = Called("render", no_color)
    /\ ret' = [ok |-> TRUE, frame |-> RenderFrame(width, height, entities, no_color)]
    /\ entities' = [i \in 1 .. Len(entities) |-> entities[Len(entities) + 1 - i]]
    /\ UNCHANGED <<width, height>>

Render(no_color) ==
    /\ Created
    /\ call' = Called("render", no_color)
    /\ ret' = [ok |-> TRUE, frame |-> RenderFrame(width, height, entities, no_color)]
    /\ UNCHANGED <<width, height, entities>>

\* The methods called on a RainMap that no main drives.
CallHydrate(rate) == Hydrate(rate) /\ UNCHANGED process
CallUpdate == Update /\ UNCHANGED process
CallResize(w, h) == Resize(w, h) /\ UNCHANGED process
CallRender(no_color) == Render(no_color) /\ UNCHANGED process

Next ==
    \/ \E rate \in SpawnRates : CallHydrate(rate)
    \/ CallUpdate
    \/ \E w \in 0 .. MaxWidth, h \in 0 .. MaxHeight : CallResize(w, h)
    \/ \E no_color \in BOOLEAN : CallRender(no_color)

Spec == Init /\ [][Next]_vars

\* Depth moves by at most 3 per update and a particle lives for fewer than
\* height updates, so it reaches the ends of i16 only on a terminal more
\* than 10,922 rows high. To put Pos::shift at those ends within the bounds
\* of the model, SpecDeep also starts from worlds of the largest size that
\* hold one particle, at column 1 of row 1, whose depth is already there.
DeepDepths == {I16Min, I16Max}

InitDeep ==
    \/ Init
    \/ /\ NoMain
       /\ width = MaxWidth
       /\ height = MaxHeight
       /\ call = Called("hydrate", FALSE)
       /\ ret = Unit
       /\ \E z \in DeepDepths, ent \in RainEntityNew :
            entities = <<[p |-> PosNew(1, 1, z), e |-> ent]>>

SpecDeep == InitDeep /\ [][Next]_vars

\* RainEntity::new over a chosen set of draws.
RainEntityOf(draws) ==
    { [c |-> AVAILABLE_CHARS[d[1] + 1], velocity |-> VelocityNew(d[2], d[3], d[4])] :
        d \in draws }

\* The draws RainEntity::new makes under main: one straight fall and the
\* fall of two rows that drifts right.
MainDraws == EntityDraws \cap { <<0, 0, -1, -1>>, <<1, -1, -2, -1>> }

\* The colour of a cell is a function of an i16 depth. To put depths of
\* both signs, zero and the ends of i16 in one frame, SpecShades starts
\* from worlds of the largest size that hold two particles, at rows 1 and
\* 2 of column 1, with any two of these depths.
ShadeDepths == {I16Min, 0 - 1, 0, 1, I16Max}

InitShades ==
    /\ NoMain
    /\ width = MaxWidth
    /\ height = MaxHeight
    /\ call = Called("hydrate", FALSE)
    /\ ret = Unit
    /\ \E z1 \in ShadeDepths, z2 \in ShadeDepths, ent \in RainEntityOf(MainDraws) :
            entities = <<[p |-> PosNew(1, 1, z1), e |-> ent],
                         [p |-> PosNew(1, 2, z2), e |-> ent]>>

SpecShades == InitShades /\ [][Next]_vars

---------------------------------------------------------------------------
(* The program: main, and handle_exit on the main thread and on the        *)
(* thread the ctrlc crate runs the handler on. Every statement of main     *)
(* that ends in `?` can return Err, which ends the process; an expect that *)
(* fails panics, which ends the process on the main thread and only the    *)
(* thread on the handler's. std's Stdout is one line-buffered writer       *)
(* shared by both threads: bytes without a newline wait in it until a      *)
(* flush or a later write that holds a newline, which carries them out.    *)

\* The terminal after items reach it; frames that follow one another are
\* kept as one.
RECURSIVE Reach(_, _)
Reach(term, items) ==
    IF items = <<>> THEN term
    ELSE Reach(IF Head(items) = "frame" /\ term # <<>> /\ term[Len(term)] = "frame"
               THEN term
               ELSE Append(term, Head(items)),
               Tail(items))

InitMain ==
    /\ pc = "enter"
    /\ opts \in OptsDraws
    /\ window_size = <<0, 0>>
    /\ handler = "unset"
    /\ buffer = <<>>
    /\ terminal = <<>>
    /\ status = Running
    /\ widest = 0
    /\ width = 0
    /\ height = 0
    /\ entities = <<>>
    /\ call = Called("main", FALSE)
    /\ ret = Unit

\* The statements of main whose `?` returns an io error: execute!, size,
\* set_handler, poll, read, write! and flush.
MainReturnsErr ==
    /\ status = Running
    /\ pc \in {"enter", "size", "set_handler", "poll", "write", "flush"}
    /\ status' = MainErr
    /\ UNCHANGED <<world, pc, opts, window_size, handler, buffer, terminal, widest>>

\* execute!(stdout, terminal::EnterAlternateScreen)
EnterAlternateScreen ==
    /\ status = Running
    /\ pc = "enter"
    /\ terminal' = Reach(terminal, Append(buffer, "enter"))
    /\ buffer' = <<>>
    /\ pc' = "size"
    /\ UNCHANGED <<world, opts, window_size, handler, status, widest>>

\* terminal::size()
TerminalSize(w, h) ==
    /\ status = Running
    /\ pc = "size"
    /\ window_size' = <<w, h>>
    /\ pc' = "set_handler"
    /\ UNCHANGED <<world, opts, handler, buffer, terminal, status, widest>>

\* ctrlc::set_handler(handle_exit)
SetHandler ==
    /\ status = Running
    /\ pc = "set_handler"
    /\ handler' = "armed"
    /\ pc' = "new"
    /\ UNCHANGED <<world, opts, window_size, buffer, terminal, status, widest>>

\* RainMap::new(window_size.0, window_size.1)?; window_size is not read
\* again, so it is forgotten here.
NewRainMap ==
    /\ status = Running
    /\ pc = "new"
    /\ LET made == RainMapNew(window_size[1], window_size[2]) IN
        /\ width' = made.width
        /\ height' = made.height
        /\ entities' = made.entities
        /\ call' = Called("new", FALSE)
        /\ ret' = IF made.ok THEN Unit ELSE Err
        /\ status' = IF made.ok THEN Running ELSE MainErr
        /\ pc' = IF made.ok THEN "hydrate" ELSE pc
        /\ widest' = made.width
    /\ window_size' = <<0, 0>>
    /\ UNCHANGED <<opts, handler, buffer, terminal>>

\* rain_map.hydrate(&opts), before the loop and at the end of a tick.
MainHydrate(made, most) ==
    /\ status = Running
    /\ pc = "hydrate"
    /\ HydrateFrom(opts.spawn_rate, made, most)
    /\ pc' = IF call.op = "new" THEN "poll" ELSE "flush"
    /\ UNCHANGED <<opts, window_size, handler, buffer, terminal, status, widest>>

\* poll is true and read returns Event::Resize(w, h).
ReadResize(w, h) ==
    /\ status = Running
    /\ pc = "poll"
    /\ Resize(w, h)
    /\ status' = IF ret'.ok THEN Running ELSE MainErr
    /\ widest' = IF width' > widest THEN width' ELSE widest
    /\ UNCHANGED <<pc, opts, window_size, handler, buffer, terminal>>

\* poll is true and read returns the key q or Esc: main calls handle_exit.
ReadQuitKey ==
    /\ status = Running
    /\ pc = "poll"
    /\ pc' = "exit_queue"
    /\ UNCHANGED <<world, opts, window_size, handler, buffer, terminal, status, widest>>

\* poll is true and read returns any other key or event.
ReadOther ==
    /\ status = Running
    /\ pc = "poll"
    /\ UNCHANGED vars

\* poll is false: the tick begins.
PollTimesOutIntoUpdate ==
    /\ status = Running
    /\ pc = "poll"
    /\ pc' = "update"
    /\ UNCHANGED <<world, opts, window_size, handler, buffer, terminal, status, widest>>

PollTimesOut ==
    /\ status = Running
    /\ pc = "poll"
    /\ pc' = "write"
    /\ UNCHANGED <<world, opts, window_size, handler, buffer, terminal, status, widest>>

\* write!(stdout, "{}", rain_map.render(&opts)): the frame ends in a
\* newline, so it and what stdout held reach the terminal.
WriteFrame ==
    /\ status = Running
    /\ pc = "write"
    /\ Render(opts.no_color)
    /\ terminal' = Reach(terminal, Append(buffer, "frame"))
    /\ buffer' = <<>>
    /\ pc' = "update"
    /\ UNCHANGED <<opts, window_size, handler, status, widest>>

\* rain_map.update()
MainUpdate ==
    /\ status = Running
    /\ pc = "update"
    /\ Update
    /\ pc' = "hydrate"
    /\ UNCHANGED <<opts, window_size, handler, buffer, terminal, status, widest>>

\* stdout.flush() at the end of the tick.
FlushStdout ==
    /\ status = Running
    /\ pc = "flush"
    /\ terminal' = Reach(terminal, buffer)
    /\ buffer' = <<>>
    /\ pc' = "poll"
    /\ UNCHANGED <<world, opts, window_size, handler, status, widest>>

\* The interrupt signal arrives: the handler thread calls handle_exit.
Interrupt ==
    /\ status = Running
    /\ handler = "armed"
    /\ handler' = "exit_queue"
    /\ UNCHANGED <<world, pc, opts, window_size, buffer, terminal, status, widest>>

Threads == {"main", "handler"}
Where(t) == IF t = "main" THEN pc ELSE handler

\* Thread t moves on inside handle_exit.
Goes(t, to) ==
    /\ pc' = IF t = "main" THEN to ELSE pc
    /\ handler' = IF t = "handler" THEN to ELSE handler

\* An expect of handle_exit fails on thread t.
Panics(t) ==
    /\ status = Running
    /\ Where(t) \in {"exit_queue", "exit_flush"}
    /\ status' = IF t = "main" THEN MainPanic ELSE status
    /\ handler' = IF t = "handler" THEN "dead" ELSE handler
    /\ UNCHANGED <<world, pc, opts, window_size, buffer, terminal, widest>>

\* queue!(stdout, terminal::LeaveAlternateScreen)
QueueLeave(t) ==
    /\ status = Running
    /\ Where(t) = "exit_queue"
    /\ buffer' = Append(buffer, "leave")
    /\ Goes(t, "exit_flush")
    /\ UNCHANGED <<world, opts, window_size, terminal, status, widest>>

\* handle_exit with the flush left out.
FlushLeaveForgotten(t) ==
    /\ status = Running
    /\ Where(t) = "exit_flush"
    /\ Goes(t, "exit")
    /\ UNCHANGED <<world, opts, window_size, buffer, terminal, status, widest>>

\* stdout.flush() in handle_exit
FlushLeave(t) ==
    /\ status = Running
    /\ Where(t) = "exit_flush"
    /\ terminal' = Reach(terminal, buffer)
    /\ buffer' = <<>>
    /\ Goes(t, "exit")
    /\ UNCHANGED <<world, opts, window_size, status, widest>>

\* exit(0)
Exit(t) ==
    /\ status = Running
    /\ Where(t) = "exit"
    /\ status' = ExitOk
    /\ UNCHANGED <<world, pc, opts, window_size, handler, buffer, terminal, widest>>

NextMain ==
    \/ MainReturnsErr
    \/ EnterAlternateScreen
    \/ \E w \in 0 .. MaxWidth, h \in 0 .. MaxHeight : TerminalSize(w, h)
    \/ SetHandler
    \/ NewRainMap
    \/ MainHydrate(RainEntityOf(MainDraws), MaxEntities)
    \/ \E w \in 0 .. MaxWidth, h \in 0 .. MaxHeight : ReadResize(w, h)
    \/ ReadQuitKey
    \/ ReadOther
    \/ PollTimesOut
    \/ WriteFrame
    \/ MainUpdate
    \/ FlushStdout
    \/ Interrupt
    \/ \E t \in Threads : Panics(t)
    \/ \E t \in Threads : QueueLeave(t)
    \/ \E t \in Threads : FlushLeave(t)
    \/ \E t \in Threads : Exit(t)

SpecMain == InitMain /\ [][NextMain]_vars

\* The particles of one hydrate can all come to stand in one column: the
\* one spawned at column c needs the horizontal velocity 1 - c to be at
\* column 1 after an update. SpecWide runs main's loop, with no interrupt
\* and no io error, on terminals wide enough for that to outnumber the
\* cells of a narrower world: the sizes are WideSizes, RainEntity::new
\* draws a fall of one row per update with one of five drifts, and
\* hydrate spawns on some columns (spawn_rate below 100): on so few that
\* the world holds no more particles than the widest terminal has
\* columns, and on none while a world of that width holds any.
WideSizes == { <<1, 1>>, <<2, 2>>, <<5, 2>> }

WideDraws ==
    { d \in { <<0, dx, 0 - 1, 0>> : dx \in -1 .. 3 } :
        /\ d[1] \in 0 .. Len(AVAILABLE_CHARS) - 1
        /\ d[2] \in X_RANGE /\ d[3] \in Y_RANGE /\ d[4] \in Z_RANGE }

WideMost == CHOOSE n \in { sz[1] : sz \in WideSizes } : \A sz \in WideSizes : sz[1] <= n

WideRoom ==
    IF width = WideMost /\ entities /= <<>> THEN Len(entities) ELSE WideMost

InitWide == InitMain /\ opts.spawn_rate < 100

NextWide ==
    \/ EnterAlternateScreen
    \/ \E sz \in WideSizes : TerminalSize(sz[1], sz[2])
    \/ SetHandler
    \/ NewRainMap
    \/ MainHydrate(RainEntityOf(WideDraws), WideRoom)
    \/ \E sz \in WideSizes : ReadResize(sz[1], sz[2])
    \/ PollTimesOut
    \/ WriteFrame
    \/ MainUpdate
    \/ FlushStdout

SpecWide == InitWide /\ [][NextWide]_vars

---------------------------------------------------------------------------
(* Vocabulary of the properties.                                           *)

\* The bounds as the specification words them: 0 <= x < w and 0 <= y < h.
InBounds(w, h, pos) == 0 <= pos.x /\ pos.x < w /\ 0 <= pos.y /\ pos.y < h

\* How many times t occurs in the sequence s.
Count(s, t) == Cardinality({ i \in DOMAIN s : s[i] = t })

\* s is t with some elements left out, the rest in t's order.
IsSubSeq(s, t) ==
    \E f \in [1 .. Len(s) -> 1 .. Len(t)] :
        /\ \A i \in 1 .. Len(s) : s[i] = t[f[i]]
        /\ \A i, j \in 1 .. Len(s) : i < j => f[i] < f[j]

\* t starts with s.
IsPrefix(s, t) == Len(s) <= Len(t) /\ SubSeq(t, 1, Len(s)) = s

---------------------------------------------------------------------------
\* C1: in every reachable state every stored particle has 0 <= x < width
\* and 0 <= y < height, for the world's current width and height.
C1_ParticlesInBounds ==
    \A i \in 1 .. Len(entities) : InBounds(width, height, entities[i].p)

\* A world holding a fresh particle and one that has survived an update,
\* just after a resize that failed.
C1_Witness ==
    /\ call.op = "resize" /\ ~ret.ok
    /\ \E i \in 1 .. Len(entities) : entities[i].p.y = 0
    /\ \E i \in 1 .. Len(entities) : entities[i].p.y > 0

\* C2: after update every remaining particle is in bounds, and the particles
\* removed are exactly those whose position, once the velocity was added,
\* is out of bounds: none whose updated position is in bounds is removed.
C2_UpdateDropsExactlyOutOfBounds ==
    [][call'.op = "update" =>
        LET m == Moved(entities)
        IN  /\ \A i \in 1 .. Len(entities') :
                 /\ InBounds(width, height, entities'[i].p)
                 /\ \E j \in 1 .. Len(m) : entities'[i] = m[j]
            /\ \A j \in 1 .. Len(m) :
                 Count(entities', m[j]) =
                     IF InBounds(width, height, m[j].p) THEN Count(m, m[j]) ELSE 0
      ]_vars

\* C3: a successful resize removes all and only the particles outside the
\* new bounds; those inside, column 0 and row 0 included, stay as they are.
C3_ResizeDropsExactlyOutOfBounds ==
    [][(call'.op = "resize" /\ ret'.ok) =>
        /\ \A i \in 1 .. Len(entities') :
             \E j \in 1 .. Len(entities) : entities'[i] = entities[j]
        /\ \A j \in 1 .. Len(entities) :
             Count(entities', entities[j]) =
                 IF InBounds(width', height', entities[j].p)
                 THEN Count(entities, entities[j]) ELSE 0
      ]_vars

\* C4: resize with a zero width or a zero height returns an error and
\* leaves width, height and the particles as they were.
C4_FailedResizeChangesNothing ==
    [][call'.op = "resize" =>
        \A w \in 0 .. MaxWidth, h \in 0 .. MaxHeight :
            ((w = 0 \/ h = 0) /\ Resize(w, h)) =>
                (~ret'.ok /\ UNCHANGED <<width, height, entities>>)
      ]_vars

\* A resize has just failed on a world that holds particles.
C4_Witness ==
    call.op = "resize" /\ ~ret.ok /\ Len(entities) > 0 /\ width > 0 /\ height > 0

\* C5: hydrate keeps every particle already there, in place, and adds at
\* most one particle per column, each at (column, 0, 0); at spawn rate 100
\* it adds exactly one for every column of 0 .. width - 1.
C5_HydrateAddsOnePerColumn ==
    [][call'.op = "hydrate" =>
        /\ IsPrefix(entities, entities')
        /\ \A i \in Len(entities) + 1 .. Len(entities') :
             /\ entities'[i].p.x \in 0 .. width - 1
             /\ entities'[i].p.y = 0
             /\ entities'[i].p.z = 0
        /\ \A i, j \in Len(entities) + 1 .. Len(entities') :
             i /= j => entities'[i].p.x /= entities'[j].p.x
        /\ Hydrate(100) =>
             /\ Len(entities') = Len(entities) + width
             /\ \A c \in 0 .. width - 1 :
                  entities'[Len(entities) + c + 1].p = PosNew(c, 0, 0)
      ]_vars

\* hydrate has just filled every column of a world that already held a
\* particle.
C5_Witness ==
    /\ call.op = "hydrate"
    /\ Len(entities) = width + 1
    /\ \A c \in 0 .. width - 1 : entities[c + 2].p = PosNew(c, 0, 0)

---------------------------------------------------------------------------
\* The sum the specification gives for the depth: z + vz kept within i16.
ClampI16(n) == IF n > I16Max THEN I16Max ELSE IF n < I16Min THEN I16Min ELSE n

\* The particle t one tick later, as the specification words it.
OneTickOn(t) ==
    [p |-> [x |-> t.p.x + t.e.velocity.x,
            y |-> t.p.y + t.e.velocity.y,
            z |-> ClampI16(t.p.z + t.e.velocity.z)],
     e |-> t.e]

\* C6: a particle that survives update keeps its glyph and velocity and
\* has moved by exactly its velocity, the depth clamped to i16 and not
\* wrapped; hydrate, resize and render change no particle that stays.
C6_ParticlesMoveByVelocity ==
    [][/\ call'.op = "update" =>
            IsSubSeq(entities', [i \in 1 .. Len(entities) |-> OneTickOn(entities[i])])
       /\ call'.op = "hydrate" => IsPrefix(entities, entities')
       /\ call'.op = "resize" => IsSubSeq(entities', entities)
       /\ call'.op = "render" => entities' = entities
      ]_vars

\* A particle has survived an update at the upper end of i16 with a depth
\* velocity that pushes it further up.
C6_Witness ==
    /\ call.op = "update"
    /\ \E i \in 1 .. Len(entities) :
         /\ entities[i].p.z = I16Max
         /\ entities[i].e.velocity.z > 0
         /\ entities[i].p.y > entities[i].e.velocity.y

\* C7: the vertical velocity of every particle is 1, 2 or 3 and every
\* update raises the row of a surviving particle by it, so a particle
\* spawned at row 0 has been through p.y / velocity.y updates, and that
\* number stays below height: it is gone after at most height updates.
C7_ParticlesFallAndLeave ==
    /\ [](\A i \in 1 .. Len(entities) :
            /\ entities[i].e.velocity.y \in 1 .. 3
            /\ entities[i].p.y % entities[i].e.velocity.y = 0
            /\ entities[i].p.y \div entities[i].e.velocity.y < height)
    /\ [][call'.op = "update" =>
            \E f \in [1 .. Len(entities') -> 1 .. Len(entities)] :
                /\ \A i, j \in 1 .. Len(entities') : i < j => f[i] < f[j]
                /\ \A i \in 1 .. Len(entities') :
                     /\ entities'[i].e = entities[f[i]].e
                     /\ entities'[i].p.y - entities[f[i]].p.y \in 1 .. 3
         ]_vars

\* A particle that falls one row per update is on the last row after
\* height - 1 updates.
C7_Witness ==
    /\ call.op = "update"
    /\ height >= 3
    /\ \E i \in 1 .. Len(entities) :
         entities[i].e.velocity.y = 1 /\ entities[i].p.y = height - 1

---------------------------------------------------------------------------
\* The piece of the frame render returned for column x of row y.
FrameCell(x, y) == ret.frame[y * (width + 1) + x + 1]

\* The stored particles at column x of row y.
At(x, y) ==
    { i \in 1 .. Len(entities) : entities[i].p.x = x /\ entities[i].p.y = y }

\* The stored particles render maps to column x of row y.
MapsTo(x, y) == { i \in At(x, y) : Contains(width, height, entities[i].p) }

\* The colour the specification gives a depth, when colour is on.
ColourOf(z) == IF z < 0 THEN "DarkBlue" ELSE IF z = 0 THEN "Blue" ELSE "Cyan"

Deepest(S) == { i \in S : \A j \in S : entities[j].p.z <= entities[i].p.z }
First(S) == CHOOSE i \in S : \A j \in S : i <= j
Last(S) == CHOOSE i \in S : \A j \in S : j <= i

\* C8: where stored particles of different depths share a cell, the frame
\* shows there the glyph and the colour of a particle of the greatest
\* depth, whatever their order in the Vec.
C8_GreatestDepthWins ==
    call.op = "render" =>
        \A x \in 0 .. width - 1, y \in 0 .. height - 1 :
            (\E i, j \in At(x, y) : entities[i].p.z > entities[j].p.z) =>
                \E i \in Deepest(At(x, y)) :
                    /\ FrameCell(x, y).text = entities[i].e.c
                    /\ FrameCell(x, y).fg =
                         IF call.no_color THEN "None" ELSE ColourOf(entities[i].p.z)

\* render has run on a world where a particle of greater depth comes
\* later in the Vec than one of lower depth in the same cell.
C8_Witness ==
    /\ call.op = "render"
    /\ \E i, j \in 1 .. Len(entities) :
         /\ i < j
         /\ entities[i].p.x = entities[j].p.x
         /\ entities[i].p.y = entities[j].p.y
         /\ entities[i].p.z < entities[j].p.z

\* C9 as claimed: an incoming particle whose depth is not strictly greater
\* leaves the entry of its cell unchanged, so among the particles of
\* greatest depth render maps to a cell the first in the Vec is shown.
C9_TiesKeepFirstSeen ==
    call.op = "render" =>
        \A x \in 0 .. width - 1, y \in 0 .. height - 1 :
            MapsTo(x, y) /= {} =>
                FrameCell(x, y).text = entities[First(Deepest(MapsTo(x, y)))].e.c

\* C9 as amended: an incoming particle leaves the entry of its cell
\* unchanged only when its depth is strictly lower; on equal depths it
\* replaces the entry, so among the particles of greatest depth render maps
\* to a cell the last in the Vec is shown.
C9_TiesTakeLastSeen ==
    call.op = "render" =>
        \A x \in 0 .. width - 1, y \in 0 .. height - 1 :
            MapsTo(x, y) /= {} =>
                FrameCell(x, y).text = entities[Last(Deepest(MapsTo(x, y)))].e.c

\* render has run on a world where two particles of the same depth and
\* different glyphs map to one cell.
C9_Witness ==
    /\ call.op = "render"
    /\ \E x \in 0 .. width - 1, y \in 0 .. height - 1 :
         \E i, j \in MapsTo(x, y) :
             /\ i < j
             /\ entities[i].p.z = entities[j].p.z
             /\ entities[i].e.c /= entities[j].e.c

\* C10: the frame is height lines of width cells and a newline; a cell is
\* a space exactly when no stored particle is at it, and otherwise shows
\* the glyph of a particle stored there, row 0 and column 0 included.
C10_FrameShowsEveryParticle ==
    call.op = "render" =>
        /\ Len(ret.frame) = height * (width + 1)
        /\ \A y \in 0 .. height - 1 : FrameCell(width, y).text = "\n"
        /\ \A x \in 0 .. width - 1, y \in 0 .. height - 1 :
             /\ FrameCell(x, y).text = " " <=> At(x, y) = {}
             /\ At(x, y) /= {} =>
                  \E i \in At(x, y) : FrameCell(x, y).text = entities[i].e.c

---------------------------------------------------------------------------
(* Properties of the program: main and handle_exit.                        *)

\* The places of the terminal's record where an item of one kind stands.
Places(kind) == { i \in DOMAIN terminal : terminal[i] = kind }

\* The terminal shows the alternate screen: it was entered and not left
\* since.
InAlternateScreen ==
    /\ Places("enter") /= {}
    /\ \A i \in Places("leave") : i < Last(Places("enter"))

\* C11: whichever trigger ends the process, the exit key read by the loop
\* or the interrupt signal, a process that has exited with status 0 has
\* had the leave-alternate-screen command written and flushed to the
\* terminal, which is out of the alternate screen.
C11_ExitZeroOnlyAfterRestoring ==
    status = ExitOk =>
        /\ Places("leave") /= {}
        /\ ~InAlternateScreen

\* The interrupt's handle_exit has ended the process while main was inside
\* its loop.
C11_Witness ==
    /\ status = ExitOk
    /\ handler = "exit"
    /\ pc \in {"poll", "write", "update", "hydrate", "flush"}
    /\ Places("leave") /= {}

\* C12: a process that has ended after entering the alternate screen, by
\* exit or by a fatal error of main, has left the alternate screen.
C12_TerminationRestoresTerminal ==
    status /= Running => ~InAlternateScreen

\* C13: a resize event with a zero side is skipped: the world is as it was
\* and main goes on polling.
C13_ZeroResizeEventIsSkipped ==
    [][\A w \in 0 .. MaxWidth, h \in 0 .. MaxHeight :
            (w = 0 \/ h = 0) /\ ReadResize(w, h) =>
                /\ status' = Running
                /\ pc' = "poll"
                /\ UNCHANGED <<width, height, entities>>]_vars

\* C14: render leaves the world as it was (width, height, the particles
\* and their order), and a render that follows a render with the same
\* colour setting, nothing between them, returns the same frame.
C14_RenderLeavesWorldAndRepeats ==
    [][call'.op = "render" =>
            \A no_color \in BOOLEAN :
                CallRender(no_color) =>
                    /\ UNCHANGED <<width, height, entities>>
                    /\ call = Called("render", no_color) => ret' = ret]_vars

\* A frame of a full world that shows a particle.
C14_Witness ==
    /\ call.op = "render"
    /\ Len(entities) = MaxEntities
    /\ \E i \in DOMAIN entities : Contains(width, height, entities[i].p)

\* C15: RainMap::new(width, height), as main calls it on the window size,
\* fails exactly when width = 0 or height = 0, and otherwise returns a
\* world with those bounds and no particles.
C15_NewFailsExactlyOnZero ==
    [][NewRainMap =>
            LET w == window_size[1]
                h == window_size[2]
            IN  /\ ~ret'.ok <=> (w = 0 \/ h = 0)
                /\ ret'.ok => width' = w /\ height' = h /\ entities' = <<>>
                /\ ~ret'.ok => status' = MainErr]_vars

\* main has ended on the error of a RainMap::new.
C15_Witness ==
    /\ call.op = "new"
    /\ ~ret.ok
    /\ status = MainErr

\* The place of a colour in the order dark blue < blue < cyan.
Rank(fg) == CASE fg = "DarkBlue" -> 0 [] fg = "Blue" -> 1 [] fg = "Cyan" -> 2

\* The depth render shows at column x of row y: the greatest there.
DepthShown(x, y) == entities[First(Deepest(MapsTo(x, y)))].p.z

\* C16: with colour on, the colour of a rendered cell is fixed by its
\* depth alone, and it does not fall as the depth rises: of two cells of
\* one frame, the one of lower depth has a colour of lower or equal rank
\* in dark blue < blue < cyan, over depths from all of i16.
C16_ColourRisesWithDepth ==
    (call.op = "render" /\ ~call.no_color) =>
        \A x1, x2 \in 0 .. width - 1, y1, y2 \in 0 .. height - 1 :
            (MapsTo(x1, y1) /= {} /\ MapsTo(x2, y2) /= {}) =>
                /\ DepthShown(x1, y1) = DepthShown(x2, y2) =>
                     FrameCell(x1, y1).fg = FrameCell(x2, y2).fg
                /\ DepthShown(x1, y1) < DepthShown(x2, y2) =>
                     Rank(FrameCell(x1, y1).fg) <= Rank(FrameCell(x2, y2).fg)

\* A coloured frame showing depth 0 in blue beside the lowest depth of i16
\* in dark blue.
C16_Witness ==
    /\ call.op = "render" /\ ~call.no_color
    /\ \E x1, x2 \in 0 .. width - 1, y1, y2 \in 0 .. height - 1 :
        /\ MapsTo(x1, y1) /= {} /\ MapsTo(x2, y2) /= {}
        /\ DepthShown(x1, y1) = I16Min /\ FrameCell(x1, y1).fg = "DarkBlue"
        /\ DepthShown(x2, y2) = 0 /\ FrameCell(x2, y2).fg = "Blue"

\* C17: main's loop does one thing per iteration, an event or a tick, and
\* a tick is render, then update, then hydrate. So whenever the world or
\* the record of its last call changes: a render follows a hydrate or a
\* resize, changes nothing and returns the frame of the world as the
\* earlier ticks and resizes left it; an update follows that render; a
\* hydrate follows that update, or RainMap::new; and a resize follows a
\* hydrate or a resize, never the render or the update of a tick.
C17_OneEventOrOneOrderedTick ==
    [][world' /= world =>
        /\ call'.op = "new" => call.op = "main"
        /\ call'.op = "render" =>
            /\ call.op \in {"hydrate", "resize"}
            /\ UNCHANGED <<width, height, entities>>
            /\ ret'.frame = RenderFrame(width, height, entities, opts.no_color)
        /\ call'.op = "update" => call.op = "render"
        /\ call'.op = "hydrate" => call.op \in {"new", "update"}
        /\ call'.op = "resize" => call.op \in {"hydrate", "resize"}]_vars

\* The end of a tick: its frame is out, and the world holds a particle
\* the tick moved and one it spawned.
C17_Witness ==
    /\ pc = "flush"
    /\ call.op = "hydrate"
    /\ Places("frame") /= {}
    /\ \E i \in DOMAIN entities : entities[i].p.y > 0
    /\ \E i \in DOMAIN entities : entities[i].p.y = 0

\* C18: in every run of main's loop the world never holds more particles
\* than its current width times its current height.
C18_ParticlesAtMostWidthTimesHeight ==
    Len(entities) <= width * height

\* C18, amended: in every run of main's loop the world never holds more
\* particles than the largest width it has had times its current height.
C18_ParticlesAtMostWidestTimesHeight ==
    Len(entities) <= widest * height

\* A world narrowed by a resize event that holds more particles than it
\* has cells.
C18_Witness ==
    /\ pc = "poll"
    /\ call.op = "resize"
    /\ width < widest
    /\ entities /= <<>>
    /\ Len(entities) > width * height

\* C19: in every interleaving of the handler thread with main's loop, the
\* leave-alternate-screen command reaches the terminal at most once, and
\* nothing reaches the terminal after it: no frame and no second leave.
C19_RestoredOnceAndNothingAfter ==
    \A i \in Places("leave") :
        \A j \in DOMAIN terminal : j <= i

====
